---- MODULE Spec2Model ----
(***************************************************************************)
(* Model of the MyFSP image uploader (src/ImageUploader/ImageUploader.py,  *)
(* src/upload.py).                                                         *)
(*                                                                         *)
(* Spec      : one directory batch. The caller (main thread) runs          *)
(*             run() -> process_images(); the worker thread runs           *)
(*             BGRunner.run(); the signals result/done travel to the main  *)
(*             thread as queued events, which only the main event loop     *)
(*             (app.exec_(), attended mode) delivers.                      *)
(* FairSpec  : Spec with weak fairness on both threads.                    *)
(* UploadSpec: one call of upload_image(), with the server's answers and   *)
(*             the re-encoded file sizes as inputs.                        *)
(***************************************************************************)
EXTENDS Integers, Sequences, FiniteSets, TLC

\* ------------------------------------------------------------------ bounds
MaxFiles == 3
\* stands for the interpreter's recursion limit: upload_image calls itself once
\* per retry, and a call beyond the limit raises RecursionError
RecursionLimit == 3
\* longest filename stem, in tokens
MaxStemLen == 6
\* most files in the directory that process_images renames
MaxDirFiles == 2
\* most requests of one attended session
MaxRequests == 2

\* ------------------------------------------------------- program constants
FILE_SIZE_LIMIT == 1000000
MAX_RESIZE_PASSES == 50
\* the regular expression of get_new_filename: _page\d{1,6}(?!_page)
MinPageDigits == 1
MaxPageDigits == 6

\* ------------------------------------------------------ batch-model state
VARIABLES
    silent,         \* ImageUploader.silent (unattended mode)
    files,          \* the files get_all_files() finds, with what happens to each
    converted,      \* converted_image_paths of process_images (item numbers)
    tasks_queue,    \* Queue(): the items waiting
    unfinished,     \* Queue.unfinished_tasks (put: +1, task_done: -1, join waits for 0)
    num_bg_tasks,   \* ImageUploader.num_bg_tasks
    bg_results,     \* ImageUploader.bg_results
    cpc,            \* position of the main thread
    nput,           \* how many items queue_images_for_upload has put
    ret,            \* what run() returned (-1: nothing yet)
    summary,        \* what examine_bg_results returned last (-1: not called)
    wpc,            \* position of the worker thread
    cur,            \* (hawb, image) the worker holds
    quitReq,        \* runner_thread.quit() was called
    events,         \* queued signal events posted to the main thread
    emitted,        \* history: every signal the worker emitted, in order
    delivered,      \* history: every event the main thread's slots received
    path_kind,      \* what original_image_path is, see PathKinds
    batch_errors    \* history: batch-level errors process_images reported

bvars == <<silent, files, converted, tasks_queue, unfinished, num_bg_tasks,
           bg_results, cpc, nput, ret, summary, wpc, cur, quitReq, events,
           emitted, delivered, path_kind, batch_errors>>

\* ----------------------------------------------------- upload-model state
VARIABLES
    up_pc,          \* position inside upload_image: "idle", "post", "compress", "done"
    size,           \* os.stat(image_path).st_size
    passes,         \* compress_image's local counter
    depth,          \* how many upload_image frames are below the running one
    requests,       \* history: requests sent
    compressions,   \* history: calls of compress_image
    response,       \* what the last send produced
    up_ret,         \* how the outermost upload_image ended: "none", "true", "false", "raised"
    over            \* the last compress_image returned with the file still over the limit

uvars == <<up_pc, size, passes, depth, requests, compressions, response, up_ret, over>>

\* --------------------------------------------- single-file pipeline state
VARIABLES
    p_pc,           \* position inside process_image: "idle", "rename", "convert",
                    \* "upload", "uploading", "done", "raised"
    attempted,      \* history: the stages process_image has called, in order
    p_renamed,      \* rename_path returned a path
    p_converted,    \* convert_image returned a path
    p_ret           \* what process_image returned (-1: nothing yet)

pvars == <<p_pc, attempted, p_renamed, p_converted, p_ret>>

\* ------------------------------------------------------------- namer state
VARIABLES
    n_pc,           \* "idle", "input" (get_new_filename not yet called), "named"
    n_filename,     \* the filename argument
    n_name          \* what get_new_filename returned

nvars == <<n_pc, n_filename, n_name>>

\* ----------------------------------------------------------- rename state
VARIABLES
    r_pc,           \* "idle", "try" (about to os.renames), "clear" (about to rmtree), "end"
    r_files,        \* image_paths: the names of the source files of the directory
    r_fs,           \* the directory: what lies at each name
    r_idx,          \* the file rename_path is working on
    r_attempts,     \* history: os.renames calls of the running rename_path
    r_clears,       \* history: shutil.rmtree calls of the running rename_path
    r_entry,        \* history: what lay at path when rename_path was entered
    r_renamed       \* what each rename_path returned (NoName for False), with its history

rvars == <<r_pc, r_files, r_fs, r_idx, r_attempts, r_clears, r_entry, r_renamed>>

\* ---------------------------------------------------------- session state
VARIABLES
    controls,       \* the input controls (fields, Browse, Upload) are enabled
    raised,         \* history: uploader.run() raised inside the worker's loop
    request         \* history: how many requests run() was called for

gvars == <<controls, raised, request>>

\* ------------------------------------------------------------- file inputs
FileKinds == {"ok", "norename", "noconvert"}
\* run(): the path does not exist; is a directory (or a PDF that
\* get_page_images expanded into one); is a PDF for which get_page_images
\* returns None; is a single file; exists but is none of these
PathKinds == {"missing", "dir", "pdf_failed", "file", "other"}
FailStages == {"none", "missing", "rename", "convert", "upload"}

Indices(s) == 1..Len(s)

RECURSIVE Survivors(_, _, _)
\* the indices i >= k of fs whose kind is not in bad, in order
Survivors(fs, k, bad) ==
    IF k > Len(fs) THEN <<>>
    ELSE IF fs[k] \in bad THEN Survivors(fs, k + 1, bad)
         ELSE <<k>> \o Survivors(fs, k + 1, bad)

\* renamed_image_paths = [f for f in [rename_path(x) ...] if f]
renamed_image_paths(fs) == Survivors(fs, 1, {"norename"})
\* converted_image_paths = [f for f in [convert_image(x) ...] if f]
converted_image_paths(fs) == Survivors(fs, 1, {"norename", "noconvert"})

\* process_image: rename -> convert -> upload, 0 only when all three succeed
process_image(fail) ==
    LET renamed_path == fail # "rename"
        converted_path == fail # "convert"
        result == fail # "upload"
    IN IF renamed_path
       THEN IF converted_path
            THEN IF result THEN 0 ELSE 1
            ELSE 1
       ELSE 1

\* ImageUploader.run() of the worker's uploader on one queued file
uploader_run(fail) ==
    IF fail = "missing" THEN 1 ELSE process_image(fail)

\* examine_bg_results: the number of entries whose result is not 0
RECURSIVE CountFailures(_)
CountFailures(rs) ==
    IF rs = <<>> THEN 0
    ELSE (IF Head(rs).r # 0 THEN 1 ELSE 0) + CountFailures(Tail(rs))

examine_bg_results(rs) == CountFailures(rs)

\* Queue.empty()
tasks_empty(q) == q = <<>>

\* Queue.get(): the item handed out and the queue left
Queue_get_lifo(q) == <<q[Len(q)], SubSeq(q, 1, Len(q) - 1)>>
Queue_get(q) == <<Head(q), Tail(q)>>

ResultEvent(r, item, fail, behind) ==
    [ev |-> "result", r |-> r, item |-> item, fail |-> fail, behind |-> behind]
DoneEvent == [ev |-> "done", r |-> 0, item |-> 0, fail |-> "none", behind |-> {}]

\* what a slot of the main thread receives of an emitted signal
Payload(e) == [ev |-> e.ev, r |-> e.r, item |-> e.item]

SeqRange(s) == {s[i] : i \in Indices(s)}

BInit ==
    /\ silent \in BOOLEAN
    /\ files \in UNION {[1..n -> FileKinds] : n \in 1..MaxFiles}
    /\ converted = <<>>
    /\ tasks_queue = <<>>
    /\ unfinished = 0
    /\ num_bg_tasks = -1
    /\ bg_results = <<>>
    /\ cpc = "run"
    /\ nput = 0
    /\ ret = -1
    /\ summary = -1
    /\ wpc = "idle"
    /\ cur = 0
    /\ quitReq = FALSE
    /\ events = <<>>
    /\ emitted = <<>>
    /\ delivered = <<>>
    /\ path_kind \in PathKinds
    /\ batch_errors = 0


\* ------------------------------------------------------------ main thread
\* where the main thread is once run() has returned: back in the event
\* loop (attended), or out of the program's only call (silent)
ReturnPc == IF silent THEN "returned" ELSE "eventloop"

\* process_images() up to the two survivor checks: what it returns there
\* (-1: it goes on to start the worker)
process_images_checks_no_convert_check(fs) ==
    IF Len(renamed_image_paths(fs)) = 0 THEN 1 ELSE -1
process_images_checks(fs) ==
    IF Len(renamed_image_paths(fs)) = 0 THEN 1
    ELSE IF Len(converted_image_paths(fs)) = 0 THEN 1
    ELSE -1

\* if not self.silent: self.disable_controls() / self.enable_controls()
disable_controls(c) == IF silent THEN c ELSE FALSE
enable_controls(c) == IF silent THEN c ELSE TRUE

\* run(), and for a directory process_images() up to the two survivor checks.
\* A PDF goes through get_page_images first; when that returns None,
\* os.path.isdir(None) raises TypeError out of run().  A single file goes
\* through call_and_enable, which enables the controls after process_image
\* has returned; process_image raises what upload_image does not catch
\* (open() in post, os.stat and Image.open in compress_image).
run ==
    /\ cpc = "run"
    /\ IF path_kind = "missing"
       THEN /\ ret' = 1
            /\ cpc' = ReturnPc
            /\ UNCHANGED <<converted, batch_errors, controls>>
       ELSE IF path_kind = "pdf_failed"
       THEN /\ cpc' = "raised"
            /\ controls' = disable_controls(controls)
            /\ UNCHANGED <<ret, converted, batch_errors>>
       ELSE IF path_kind = "other"
       THEN /\ ret' = 1
            /\ cpc' = ReturnPc
            /\ controls' = disable_controls(controls)
            /\ UNCHANGED <<converted, batch_errors>>
       ELSE IF path_kind = "file"
       THEN /\ \/ /\ \E fail \in FailStages \ {"missing"} : ret' = process_image(fail)
                  /\ cpc' = ReturnPc
                  /\ controls' = enable_controls(disable_controls(controls))
               \/ /\ cpc' = "raised"
                  /\ controls' = disable_controls(controls)
                  /\ UNCHANGED ret
            /\ UNCHANGED <<converted, batch_errors>>
       ELSE /\ converted' = converted_image_paths(files)
            /\ controls' = disable_controls(controls)
            /\ IF process_images_checks(files) = -1
               THEN /\ cpc' = "start"
                    /\ UNCHANGED <<ret, batch_errors>>
               ELSE /\ ret' = process_images_checks(files)
                    /\ batch_errors' = batch_errors + 1
                    /\ cpc' = ReturnPc
    /\ UNCHANGED <<uvars, pvars, nvars, rvars, raised, request>>
    /\ UNCHANGED <<path_kind, silent, files, tasks_queue, unfinished,
                   num_bg_tasks, bg_results, nput, summary, wpc, cur, quitReq,
                   events, emitted, delivered>>

\* an exception that leaves a slot of the window reaches sys.excepthook,
\* which logs it; the event loop goes on
excepthook ==
    /\ ~silent
    /\ cpc = "raised"
    /\ cpc' = "eventloop"
    /\ UNCHANGED <<uvars, pvars, nvars, rvars, gvars>>
    /\ UNCHANGED <<path_kind, batch_errors, silent, files, converted,
                   tasks_queue, unfinished, num_bg_tasks, bg_results, nput, ret,
                   summary, wpc, cur, quitReq, events, emitted, delivered>>

\* start_uploader_thread(): runner_thread.start() starts the thread, whose
\* started signal calls BGRunner.run in that thread
start_uploader_thread ==
    /\ cpc = "start"
    /\ wpc' = IF wpc = "idle" THEN "check" ELSE wpc
    /\ cpc' = "queue"
    /\ UNCHANGED <<uvars, pvars, nvars, rvars, gvars>>
    /\ UNCHANGED <<path_kind, batch_errors, silent, files, converted, tasks_queue, unfinished,
                   num_bg_tasks, bg_results, nput, ret, summary, cur, quitReq,
                   events, emitted, delivered>>

\* queue_images_for_upload(): the two assignments before the puts
queue_images_for_upload ==
    /\ cpc = "queue"
    /\ num_bg_tasks' = Len(converted)
    /\ bg_results' = <<>>
    /\ cpc' = "put"
    /\ UNCHANGED <<uvars, pvars, nvars, rvars, gvars>>
    /\ UNCHANGED <<path_kind, batch_errors, silent, files, converted, tasks_queue, unfinished, nput,
                   ret, summary, wpc, cur, quitReq, events, emitted, delivered>>

\* one tasks_queue.put(); after the last one process_images goes on to wait
\* (silent) or returns val to the event loop
tasks_put ==
    /\ cpc = "put"
    /\ nput < Len(converted)
    /\ tasks_queue' = Append(tasks_queue, converted[nput + 1])
    /\ unfinished' = unfinished + 1
    /\ nput' = nput + 1
    /\ IF nput + 1 = Len(converted)
       THEN IF silent
            THEN cpc' = "join" /\ ret' = ret
            ELSE cpc' = "eventloop" /\ ret' = 0
       ELSE cpc' = cpc /\ ret' = ret
    /\ UNCHANGED <<uvars, pvars, nvars, rvars, gvars>>
    /\ UNCHANGED <<path_kind, batch_errors, silent, files, converted, num_bg_tasks, bg_results, summary,
                   wpc, cur, quitReq, events, emitted, delivered>>

\* wait_on_uploader_thread(): tasks_queue.join()
tasks_join ==
    /\ cpc \in {"join", "close_join"}
    /\ unfinished = 0
    /\ cpc' = IF cpc = "join" THEN "quit" ELSE "close_quit"
    /\ UNCHANGED <<uvars, pvars, nvars, rvars, gvars>>
    /\ UNCHANGED <<path_kind, batch_errors, silent, files, converted, tasks_queue, unfinished,
                   num_bg_tasks, bg_results, nput, ret, summary, wpc, cur,
                   quitReq, events, emitted, delivered>>

\* wait_on_uploader_thread(): runner_thread.quit()
runner_thread_quit ==
    /\ cpc \in {"quit", "close_quit"}
    /\ quitReq' = TRUE
    /\ cpc' = IF cpc = "quit" THEN "wait" ELSE "close_wait"
    /\ UNCHANGED <<uvars, pvars, nvars, rvars, gvars>>
    /\ UNCHANGED <<path_kind, batch_errors, silent, files, converted, tasks_queue, unfinished,
                   num_bg_tasks, bg_results, nput, ret, summary, wpc, cur,
                   events, emitted, delivered>>

\* wait_on_uploader_thread(): runner_thread.wait(), which returns at once
\* for a thread that was never started; closeEvent then accepts the event
runner_thread_wait ==
    /\ cpc \in {"wait", "close_wait"}
    /\ wpc \in {"finished", "idle"}
    /\ cpc' = IF cpc = "wait" THEN "examine" ELSE "closed"
    /\ UNCHANGED <<uvars, pvars, nvars, rvars, gvars>>
    /\ UNCHANGED <<path_kind, batch_errors, silent, files, converted, tasks_queue, unfinished,
                   num_bg_tasks, bg_results, nput, ret, summary, wpc, cur,
                   quitReq, events, emitted, delivered>>

\* closeEvent(): the window is closed while the main thread is in its event
\* loop; wait_on_uploader_thread() follows
closeEvent ==
    /\ ~silent
    /\ cpc = "eventloop"
    /\ cpc' = "close_join"
    /\ controls' = disable_controls(controls)
    /\ UNCHANGED <<uvars, pvars, nvars, rvars, raised, request>>
    /\ UNCHANGED <<path_kind, batch_errors, silent, files, converted,
                   tasks_queue, unfinished, num_bg_tasks, bg_results, nput, ret,
                   summary, wpc, cur, quitReq, events, emitted, delivered>>

\* process_images(), silent: return self.examine_bg_results()
examine_silent ==
    /\ cpc = "examine"
    /\ summary' = examine_bg_results(bg_results)
    /\ ret' = examine_bg_results(bg_results)
    /\ cpc' = "returned"
    /\ UNCHANGED <<uvars, pvars, nvars, rvars, gvars>>
    /\ UNCHANGED <<path_kind, batch_errors, silent, files, converted, tasks_queue, unfinished,
                   num_bg_tasks, bg_results, nput, wpc, cur, quitReq, events,
                   emitted, delivered>>

\* the main event loop hands the next queued event to its slot:
\* result -> result_listener, done -> finished_bg_work -> examine_bg_results.
\* The slots belong to the main-thread widget and the signals are emitted in
\* the worker thread, so each emit is a queued event; it is delivered only
\* while the main thread runs its event loop, which upload.py enters
\* (app.exec_()) in attended mode only. In silent mode the main thread goes
\* from the last put straight into join/quit/wait and never delivers.
deliver_event ==
    /\ cpc = "eventloop"
    /\ events # <<>>
    /\ events' = Tail(events)
    /\ delivered' = Append(delivered, Head(events))
    /\ IF Head(events).ev = "result"
       THEN /\ bg_results' = Append(bg_results, Head(events))
            /\ UNCHANGED <<summary, controls>>
       ELSE /\ summary' = examine_bg_results(bg_results)
            /\ controls' = enable_controls(controls)
            /\ UNCHANGED bg_results
    /\ UNCHANGED <<uvars, pvars, nvars, rvars, raised, request>>
    /\ UNCHANGED <<path_kind, batch_errors, silent, files, converted, tasks_queue, unfinished,
                   num_bg_tasks, cpc, nput, ret, wpc, cur, quitReq, emitted>>

\* ---------------------------------------------------------- worker thread
\* BGRunner.run: if not self.tasks.empty() ... else break
BGRunner_check ==
    /\ wpc = "check"
    /\ wpc' = IF tasks_empty(tasks_queue) THEN "break" ELSE "get"
    /\ UNCHANGED <<uvars, pvars, nvars, rvars, gvars>>
    /\ UNCHANGED <<path_kind, batch_errors, silent, files, converted, tasks_queue, unfinished,
                   num_bg_tasks, bg_results, cpc, nput, ret, summary, cur,
                   quitReq, events, emitted, delivered>>

\* BGRunner.run: (hawb, image) = self.tasks.get()
BGRunner_get ==
    /\ wpc = "get"
    /\ tasks_queue # <<>>
    /\ cur' = Queue_get(tasks_queue)[1]
    /\ tasks_queue' = Queue_get(tasks_queue)[2]
    /\ wpc' = "run"
    /\ UNCHANGED <<uvars, pvars, nvars, rvars, gvars>>
    /\ UNCHANGED <<path_kind, batch_errors, silent, files, converted, unfinished, num_bg_tasks,
                   bg_results, cpc, nput, ret, summary, quitReq, events,
                   emitted, delivered>>

\* where the loop goes after an item's result r
AfterItem_abort(r) == IF r # 0 THEN "break" ELSE "check"
AfterItem(r) == "check"

\* BGRunner.run: r = self.uploader.run(); self.result.emit((r, image))
BGRunner_emit_result ==
    /\ wpc = "run"
    /\ \E fail \in FailStages :
         /\ emitted' = Append(emitted, ResultEvent(uploader_run(fail), cur, fail,
                                                   SeqRange(tasks_queue)))
         /\ events' = Append(events, Payload(ResultEvent(uploader_run(fail), cur,
                                                          fail, {})))
    /\ wpc' = "task_done"
    /\ UNCHANGED <<uvars, pvars, nvars, rvars, gvars>>
    /\ UNCHANGED <<path_kind, batch_errors, silent, files, converted, tasks_queue, unfinished,
                   num_bg_tasks, bg_results, cpc, nput, ret, summary, cur,
                   quitReq, delivered>>

\* BGRunner.run: self.uploader.run() raises.  Nothing in the loop catches
\* it: the slot ends there, without result.emit, task_done or done.emit;
\* sys.excepthook logs it and the thread goes on into its event loop
BGRunner_run_raises ==
    /\ wpc = "run"
    /\ raised' = TRUE
    /\ wpc' = "exec"
    /\ UNCHANGED <<uvars, pvars, nvars, rvars, controls, request>>
    /\ UNCHANGED <<path_kind, batch_errors, silent, files, converted, tasks_queue, unfinished,
                   num_bg_tasks, bg_results, cpc, nput, ret, summary, cur,
                   quitReq, events, emitted, delivered>>

\* a worker that emits done inside the loop, after every item
BGRunner_task_done_emits_done ==
    /\ wpc = "task_done"
    /\ unfinished' = unfinished - 1
    /\ emitted' = Append(emitted, DoneEvent)
    /\ events' = Append(events, Payload(DoneEvent))
    /\ wpc' = "check"
    /\ UNCHANGED <<uvars, pvars, nvars, rvars, gvars>>
    /\ UNCHANGED <<path_kind, batch_errors, silent, files, converted, tasks_queue, num_bg_tasks,
                   bg_results, cpc, nput, ret, summary, cur, quitReq, delivered>>

\* BGRunner.run: self.tasks.task_done(), and back to the head of the loop
BGRunner_task_done ==
    /\ wpc = "task_done"
    /\ unfinished' = unfinished - 1
    /\ wpc' = AfterItem(emitted[Len(emitted)].r)
    /\ UNCHANGED <<uvars, pvars, nvars, rvars, gvars>>
    /\ UNCHANGED <<path_kind, batch_errors, silent, files, converted, tasks_queue, num_bg_tasks,
                   bg_results, cpc, nput, ret, summary, cur, quitReq, events,
                   emitted, delivered>>

\* BGRunner.run: self.done.emit(0); the slot returns and the thread enters
\* its event loop (QThread.run -> exec)
BGRunner_emit_done ==
    /\ wpc = "break"
    /\ emitted' = Append(emitted, DoneEvent)
    /\ events' = Append(events, Payload(DoneEvent))
    /\ wpc' = "exec"
    /\ UNCHANGED <<uvars, pvars, nvars, rvars, gvars>>
    /\ UNCHANGED <<path_kind, batch_errors, silent, files, converted, tasks_queue, unfinished,
                   num_bg_tasks, bg_results, cpc, nput, ret, summary, cur,
                   quitReq, delivered>>

\* the thread's event loop ends once quit() was called
runner_thread_exit ==
    /\ wpc = "exec"
    /\ quitReq
    /\ wpc' = "finished"
    /\ UNCHANGED <<uvars, pvars, nvars, rvars, gvars>>
    /\ UNCHANGED <<path_kind, batch_errors, silent, files, converted, tasks_queue, unfinished,
                   num_bg_tasks, bg_results, cpc, nput, ret, summary, cur,
                   quitReq, events, emitted, delivered>>


\* ------------------------------------------------------------ upload_image
Statuses == {200, 201, 304, 404, 500, 503}
NoResponse == [kind |-> "none", status |-> 0, marker |-> FALSE]
\* what requests.Session().send() can produce: a response, or an exception
Responses ==
    {[kind |-> "http", status |-> st, marker |-> m] : st \in Statuses, m \in BOOLEAN}
    \cup {[kind |-> k, status |-> 0, marker |-> FALSE] :
            k \in {"connection_error", "timeout", "request_exception"}}

\* the file sizes the model tells apart
Sizes == {FILE_SIZE_LIMIT - 1, FILE_SIZE_LIMIT, FILE_SIZE_LIMIT + 1, 2 * FILE_SIZE_LIMIT}
\* image_file_size after img.save(): whatever the encoder wrote (the pixel
\* dimensions shrink, the byte size is read back from the file system)
Reencoded(sz) == Sizes

\* response.raise_for_status(): raises HTTPError for 4xx and 5xx
raise_for_status(st) == st >= 400 /\ st < 600

\* post(): True, False, or the exception that leaves it
post(resp) ==
    IF resp.kind # "http" THEN resp.kind
    ELSE IF resp.status = 200 THEN "true"
    ELSE IF raise_for_status(resp.status) THEN "http_error"
    ELSE "false"

\* the test of the HTTPError handler
SizeLimitExceeded_any500(resp) == resp.status = 500
SizeLimitExceeded(resp) == resp.status = 500 /\ resp.marker

\* an upload_image without the ConnectionError and Timeout clauses
upload_image_uncaught(resp) ==
    IF post(resp) = "true" THEN "true"
    ELSE IF post(resp) = "http_error" /\ SizeLimitExceeded(resp) THEN "retry"
    ELSE IF post(resp) \in {"connection_error", "timeout"} THEN "raised"
    ELSE "false"

\* upload_image: what it does with the outcome of post()
\* "retry" = compress_image, then upload_image again
upload_image(resp) ==
    IF post(resp) = "true" THEN "true"
    ELSE IF post(resp) = "http_error" /\ SizeLimitExceeded(resp) THEN "retry"
    ELSE "false"

\* compress_image: the loop condition
compress_loop(sz, p) == sz > FILE_SIZE_LIMIT /\ ~(p > MAX_RESIZE_PASSES)

UInit ==
    /\ up_pc = "post"
    /\ size \in Sizes
    /\ passes = 0
    /\ depth = 0
    /\ requests = 0
    /\ compressions = 0
    /\ response = NoResponse
    /\ up_ret = "none"
    /\ over = FALSE

UIdle ==
    /\ up_pc = "idle"
    /\ size = 0
    /\ passes = 0
    /\ depth = 0
    /\ requests = 0
    /\ compressions = 0
    /\ response = NoResponse
    /\ up_ret = "none"
    /\ over = FALSE

\* upload_image: self.post(image_path) and the except clauses
upload_post ==
    /\ up_pc = "post"
    /\ \E resp \in Responses :
         /\ response' = resp
         /\ requests' = requests + 1
         /\ IF upload_image(resp) = "retry"
            THEN /\ up_pc' = "compress"
                 /\ passes' = 0
                 /\ compressions' = compressions + 1
                 /\ up_ret' = up_ret
            ELSE /\ up_pc' = "done"
                 /\ up_ret' = upload_image(resp)
                 /\ UNCHANGED <<passes, compressions>>
    /\ UNCHANGED <<size, depth, over>>
    /\ UNCHANGED <<bvars, pvars, nvars, rvars, gvars>>

\* compress_image: one pass of the while loop
compress_pass ==
    /\ up_pc = "compress"
    /\ compress_loop(size, passes)
    /\ passes' = passes + 1
    /\ size' \in Reencoded(size)
    /\ UNCHANGED <<up_pc, depth, requests, compressions, response, up_ret, over>>
    /\ UNCHANGED <<bvars, pvars, nvars, rvars, gvars>>

\* compress_image returns; return self.upload_image(image_path): one more
\* frame. The call sits inside the HTTPError handler, so a RecursionError
\* raised below it is caught by no except clause of upload_image.
upload_retry ==
    /\ up_pc = "compress"
    /\ ~compress_loop(size, passes)
    /\ over' = (size > FILE_SIZE_LIMIT)
    /\ IF depth + 1 >= RecursionLimit
       THEN up_pc' = "done" /\ up_ret' = "raised" /\ depth' = depth
       ELSE up_pc' = "post" /\ up_ret' = up_ret /\ depth' = depth + 1
    /\ UNCHANGED <<size, passes, requests, compressions, response>>
    /\ UNCHANGED <<bvars, pvars, nvars, rvars, gvars>>

\* ----------------------------------------------------- process_image, stepwise
EmptyName == [stem |-> <<>>, ext |-> ""]

PIdle ==
    /\ p_pc = "idle" /\ attempted = <<>> /\ p_renamed = FALSE
    /\ p_converted = FALSE /\ p_ret = -1
NIdle ==
    /\ n_pc = "idle" /\ n_filename = EmptyName /\ n_name = EmptyName
\* the window as init_gui leaves it, before the first request
GInit ==
    /\ controls = TRUE /\ raised = FALSE /\ request = 1

RIdle ==
    /\ r_pc = "idle" /\ r_files = <<>> /\ r_fs = <<>> /\ r_idx = 0
    /\ r_attempts = 0 /\ r_clears = 0 /\ r_entry = [kind |-> "absent", id |-> 0]
    /\ r_renamed = <<>>

PInit ==
    /\ p_pc = "rename" /\ attempted = <<>> /\ p_renamed = FALSE
    /\ p_converted = FALSE /\ p_ret = -1

\* if renamed_path: ... else: error, return 1
after_rename(renamed_path) == IF renamed_path THEN "convert" ELSE "done"
\* if converted_path: ... else: error, return 1
after_convert_unchecked(converted_path) == "upload"
after_convert(converted_path) == IF converted_path THEN "upload" ELSE "done"

\* renamed_path = self.rename_path(path)
process_image_rename ==
    /\ p_pc = "rename"
    /\ \E ok \in BOOLEAN :
         /\ p_renamed' = ok
         /\ p_pc' = after_rename(ok)
         /\ p_ret' = IF after_rename(ok) = "done" THEN 1 ELSE p_ret
    /\ attempted' = Append(attempted, "rename")
    /\ UNCHANGED p_converted
    /\ UNCHANGED <<bvars, uvars, nvars, rvars, gvars>>

\* converted_path = self.convert_image(renamed_path)
process_image_convert ==
    /\ p_pc = "convert"
    /\ \E ok \in BOOLEAN :
         /\ p_converted' = ok
         /\ p_pc' = after_convert(ok)
         /\ p_ret' = IF after_convert(ok) = "done" THEN 1 ELSE p_ret
    /\ attempted' = Append(attempted, "convert")
    /\ UNCHANGED p_renamed
    /\ UNCHANGED <<bvars, nvars, rvars, uvars, gvars>>

\* result = self.upload_image(converted_path): the call starts
process_image_upload ==
    /\ p_pc = "upload"
    /\ attempted' = Append(attempted, "upload")
    /\ p_pc' = "uploading"
    /\ up_pc' = "post"
    /\ size' \in Sizes
    /\ UNCHANGED <<passes, depth, requests, compressions, response, up_ret, over>>
    /\ UNCHANGED <<p_renamed, p_converted, p_ret>>
    /\ UNCHANGED <<bvars, nvars, rvars, gvars>>

\* upload_image is over: return 0 if result, else error and return 1; an
\* exception that left upload_image leaves process_image too
process_image_return ==
    /\ p_pc = "uploading"
    /\ up_pc = "done"
    /\ IF up_ret = "raised"
       THEN p_pc' = "raised" /\ p_ret' = p_ret
       ELSE p_pc' = "done" /\ p_ret' = (IF up_ret = "true" THEN 0 ELSE 1)
    /\ UNCHANGED <<attempted, p_renamed, p_converted>>
    /\ UNCHANGED <<bvars, uvars, nvars, rvars, gvars>>

\* ------------------------------------------------------- get_new_filename
\* A filename is a stem of tokens and an extension. The token "P" is the
\* literal text "_page", "1" "2" "3" are digits, "x" is any other text and
\* "h" is the text h<hawb>-<date>-<time> that starts every new name.
Digits == {"1", "2", "3"}
Tokens == {"P", "x"} \cup Digits
Exts == {"", ".tif"}
Hawb == "h"
Stems == UNION {[1..n -> Tokens] : n \in 1..MaxStemLen}
Filenames == {[stem |-> st, ext |-> e] : st \in Stems, e \in Exts} \cup {EmptyName}

RECURSIVE DigitRun(_, _)
\* how many digits stand in a row in s from position i on
DigitRun(s, i) ==
    IF i > Len(s) THEN 0
    ELSE IF s[i] \in Digits THEN 1 + DigitRun(s, i + 1) ELSE 0

\* the text at position i of s starts with "_page"
PageAt(s, i) == i <= Len(s) /\ s[i] = "P"

SetMax(S) == CHOOSE m \in S : \A k \in S : k <= m
SetMin(S) == CHOOSE m \in S : \A k \in S : m <= k

\* the regular expression tried at position i: "_page", then as many digits as
\* possible (at most MaxPageDigits), giving digits back one at a time until
\* the text that follows does not start with "_page"; 0: no match here
MatchLenAt(s, i) ==
    IF ~PageAt(s, i) THEN 0
    ELSE LET ndigits == DigitRun(s, i + 1)
             most == IF ndigits > MaxPageDigits THEN MaxPageDigits ELSE ndigits
             fits == {k \in MinPageDigits..most : ~PageAt(s, i + k + 1)}
         IN IF fits = {} THEN 0 ELSE SetMax(fits)

\* re.search: the match at the leftmost position that has one, as
\* <<position, number of digits>>; <<0, 0>>: None
page_search(s) ==
    LET starts == {i \in Indices(s) : MatchLenAt(s, i) > 0}
    IN IF starts = {} THEN <<0, 0>>
       ELSE <<SetMin(starts), MatchLenAt(s, SetMin(starts))>>

\* page_search.group(0) if page_search else ''
page_group(s) ==
    IF page_search(s)[1] = 0 THEN <<>>
    ELSE SubSeq(s, page_search(s)[1], page_search(s)[1] + page_search(s)[2])

\* get_new_filename: '' for the empty filename, else h<hawb>-<d>-<t><page><ext>
get_new_filename(hawb, filename) ==
    IF filename = EmptyName THEN EmptyName
    ELSE [stem |-> <<hawb>> \o page_group(filename.stem), ext |-> filename.ext]

NInit ==
    /\ n_pc = "input"
    /\ n_filename \in Filenames
    /\ n_name = EmptyName

\* one call of get_new_filename(self.hawb_number, filename)
get_new_filename_call ==
    /\ n_pc = "input"
    /\ n_name' = get_new_filename(Hawb, n_filename)
    /\ n_pc' = "named"
    /\ UNCHANGED n_filename
    /\ UNCHANGED <<bvars, uvars, pvars, rvars, gvars>>

(***************************************************************************)
(* rename_path over the files of one directory.  A path of the directory   *)
(* is a filename; what lies at a path is a file with the content of the    *)
(* i-th source, a directory, or nothing.                                   *)
(***************************************************************************)
Absent == [kind |-> "absent", id |-> 0]
Directory == [kind |-> "dir", id |-> 0]
File(i) == [kind |-> "file", id |-> i]
\* the value rename_path returns when the move could not be completed
NoName == [stem |-> <<>>, ext |-> "False"]

\* a.tif, b.tif, two pages of one converted PDF, and a file that already
\* carries the name the scheme gives to a .tif without a page marker
DirNames ==
    { [stem |-> <<"x">>, ext |-> ".tif"],
      [stem |-> <<"x", "x">>, ext |-> ".tif"],
      [stem |-> <<"x", "P", "1">>, ext |-> ".tif"],
      [stem |-> <<"x", "P", "2">>, ext |-> ".tif"],
      [stem |-> <<Hawb>>, ext |-> ".tif"] }

\* renamed_path = os.path.join(directory, new_filename)
renamed_path(path) == get_new_filename(Hawb, path)

DirPaths == DirNames \cup {renamed_path(n) : n \in DirNames}

\* image_paths: the files os.walk found, distinct, in the order it found them
ImagePaths ==
    {fs \in UNION {[1..n -> DirNames] : n \in 1..MaxDirFiles} :
        \A i, j \in DOMAIN fs : i # j => fs[i] # fs[j]}

\* the source files lie at their paths; any other path of the directory is
\* free or holds a directory
RInit ==
    /\ r_files \in ImagePaths
    /\ \E dirs \in SUBSET (DirPaths \ {r_files[i] : i \in DOMAIN r_files}) :
          r_fs = [p \in DirPaths |->
                    IF \E i \in DOMAIN r_files : r_files[i] = p
                    THEN File(CHOOSE i \in DOMAIN r_files : r_files[i] = p)
                    ELSE IF p \in dirs THEN Directory ELSE Absent]
    /\ r_idx = 1
    /\ r_entry = File(1)
    /\ r_pc = "try"
    /\ r_attempts = 0 /\ r_clears = 0
    /\ r_renamed = <<>>

\* os.renames(path, renamed_path) can always fail with an OSError; it cannot
\* succeed when the source is no file or the destination is a directory; onto
\* an existing file it replaces the file (POSIX) or fails (Windows)
MoveOutcomes(fs, path) ==
    {"OSError"} \cup
    (IF fs[path].kind = "file" /\ fs[renamed_path(path)].kind # "dir"
     THEN {"moved"} ELSE {})

Moved(fs, path) ==
    IF renamed_path(path) = path THEN fs
    ELSE [fs EXCEPT ![renamed_path(path)] = fs[path], ![path] = Absent]

\* what becomes of an exception that leaves the inner rename(): the outer
\* handler logs it and rename_path returns False
rename_path_except_reraise == "raised"
rename_path_except == "returned"

\* rename_path returns result with the directory as fs; the comprehension of
\* process_images goes on with the next path
rename_path_return(result, fs, attempts, clears) ==
    /\ r_renamed' = Append(r_renamed,
                           [source |-> r_files[r_idx], path |-> result,
                            attempts |-> attempts, clears |-> clears,
                            intact |-> fs[r_files[r_idx]] = r_entry])
    /\ r_fs' = fs
    /\ r_attempts' = 0 /\ r_clears' = 0
    /\ r_idx' = r_idx + 1
    /\ IF r_idx < Len(r_files)
       THEN r_pc' = "try" /\ r_entry' = fs[r_files[r_idx + 1]]
       ELSE r_pc' = "end" /\ UNCHANGED r_entry

\* an exception leaves rename()
rename_path_failed(fs, attempts, clears) ==
    IF rename_path_except = "returned"
    THEN rename_path_return(NoName, fs, attempts, clears)
    ELSE /\ r_pc' = "raised" /\ r_fs' = fs
         /\ r_attempts' = attempts /\ r_clears' = clears
         /\ UNCHANGED <<r_idx, r_entry, r_renamed>>

\* os.renames(path, renamed_path): the one in the try block, or the one in
\* the OSError handler after the destination was cleared
rename_os_renames ==
    /\ r_pc = "try"
    /\ \E outcome \in MoveOutcomes(r_fs, r_files[r_idx]) :
          IF outcome = "moved"
          THEN rename_path_return(renamed_path(r_files[r_idx]),
                                  Moved(r_fs, r_files[r_idx]),
                                  r_attempts + 1, r_clears)
          ELSE IF r_attempts = 0
          THEN /\ r_pc' = "clear"
               /\ r_attempts' = r_attempts + 1
               /\ UNCHANGED <<r_fs, r_idx, r_clears, r_entry, r_renamed>>
          ELSE rename_path_failed(r_fs, r_attempts + 1, r_clears)
    /\ UNCHANGED r_files
    /\ UNCHANGED <<bvars, uvars, pvars, nvars, gvars>>

\* shutil.rmtree(renamed_path): removes a directory, or fails; raises on a
\* file and on a path that does not exist
rename_shutil_rmtree ==
    /\ r_pc = "clear"
    /\ \/ /\ r_fs[renamed_path(r_files[r_idx])].kind = "dir"
          /\ r_fs' = [r_fs EXCEPT ![renamed_path(r_files[r_idx])] = Absent]
          /\ r_clears' = r_clears + 1
          /\ r_pc' = "try"
          /\ UNCHANGED <<r_idx, r_attempts, r_entry, r_renamed>>
       \/ rename_path_failed(r_fs, r_attempts, r_clears + 1)
    /\ UNCHANGED r_files
    /\ UNCHANGED <<bvars, uvars, pvars, nvars, gvars>>

\* submit_upload_slot(): the Upload button is clicked (it can be only while
\* the controls are enabled) with a HAWB number and a path filled in, and
\* run() is called for the new path.  emitted and delivered start again as
\* the history of this request.
submit_upload_slot ==
    /\ ~silent
    /\ cpc = "eventloop"
    /\ controls
    /\ request < MaxRequests
    /\ request' = request + 1
    /\ path_kind' \in PathKinds
    /\ IF path_kind' = "dir"
       THEN files' \in UNION {[1..n -> FileKinds] : n \in 1..MaxFiles}
       ELSE files' = files
    /\ cpc' = "run"
    /\ ret' = -1 /\ summary' = -1
    /\ converted' = <<>> /\ nput' = 0
    /\ emitted' = <<>> /\ delivered' = <<>>
    /\ UNCHANGED <<uvars, pvars, nvars, rvars, controls, raised>>
    /\ UNCHANGED <<batch_errors, silent, tasks_queue, unfinished, num_bg_tasks,
                   bg_results, wpc, cur, quitReq, events>>

CallerNext ==
    \/ run
    \/ start_uploader_thread
    \/ queue_images_for_upload
    \/ tasks_put
    \/ tasks_join
    \/ runner_thread_quit
    \/ runner_thread_wait
    \/ examine_silent
    \/ deliver_event
    \/ closeEvent
    \/ excepthook

WorkerNext ==
    \/ BGRunner_check
    \/ BGRunner_get
    \/ BGRunner_emit_result
    \/ BGRunner_run_raises
    \/ BGRunner_task_done
    \/ BGRunner_emit_done
    \/ runner_thread_exit

vars == <<bvars, uvars, pvars, nvars, rvars, gvars>>

\* the batch model: the upload of each item is the input of BGRunner_emit_result
Init == BInit /\ UIdle /\ PIdle /\ NIdle /\ RIdle /\ GInit
Next == CallerNext \/ WorkerNext
Spec == Init /\ [][Next]_vars
\* both threads are scheduled fairly
FairSpec == Spec /\ WF_vars(CallerNext) /\ WF_vars(WorkerNext)

\* the steps of the main thread that the program takes by itself: all but
\* the closing of the window, which is the user's
ProgramNext ==
    \/ run
    \/ start_uploader_thread
    \/ queue_images_for_upload
    \/ tasks_put
    \/ tasks_join
    \/ runner_thread_quit
    \/ runner_thread_wait
    \/ examine_silent
    \/ deliver_event
    \/ excepthook

\* a session: after the first request, further requests in attended mode
SessionNext == Next \/ submit_upload_slot
SessionSpec == Init /\ [][SessionNext]_vars
\* both threads are scheduled fairly; the user need not click anything
FairSessionSpec == SessionSpec /\ WF_vars(ProgramNext) /\ WF_vars(WorkerNext)

\* one call of upload_image, nothing else running
BOff ==
    /\ silent = TRUE /\ files = <<"ok">> /\ converted = <<>> /\ tasks_queue = <<>>
    /\ unfinished = 0 /\ num_bg_tasks = -1 /\ bg_results = <<>> /\ cpc = "off"
    /\ nput = 0 /\ ret = -1 /\ summary = -1 /\ wpc = "off" /\ cur = 0
    /\ quitReq = FALSE /\ events = <<>> /\ emitted = <<>> /\ delivered = <<>>
    /\ path_kind = "file" /\ batch_errors = 0
UploadInit == BOff /\ UInit /\ PIdle /\ NIdle /\ RIdle /\ GInit
UploadNext == upload_post \/ compress_pass \/ upload_retry
UploadSpec == UploadInit /\ [][UploadNext]_vars
\* the call keeps running while it has a step to take
FairUploadSpec == UploadSpec /\ WF_vars(UploadNext)

\* one call of process_image on a single file, upload_image included
PipelineInit == BOff /\ UIdle /\ PInit /\ NIdle /\ RIdle /\ GInit
PipelineNext ==
    \/ process_image_rename
    \/ process_image_convert
    \/ process_image_upload
    \/ upload_post
    \/ compress_pass
    \/ upload_retry
    \/ process_image_return
PipelineSpec == PipelineInit /\ [][PipelineNext]_vars

\* one call of get_new_filename on any filename of up to MaxStemLen tokens
NamerInit == BOff /\ UIdle /\ PIdle /\ NInit /\ RIdle /\ GInit
NamerNext == get_new_filename_call
NamerSpec == NamerInit /\ [][NamerNext]_vars

\* process_images renames the files of one directory, one after the other
RenameInit == BOff /\ UIdle /\ PIdle /\ NIdle /\ RInit /\ GInit
RenameNext == rename_os_renames \/ rename_shutil_rmtree
RenameSpec == RenameInit /\ [][RenameNext]_vars


\* ------------------------------------------------------- derived notions
IsResult(e) == e.ev = "result"
IsDone(e) == e.ev = "done"
doneEmitted == \E i \in Indices(emitted) : IsDone(emitted[i])
\* the outcomes emitted so far, in order
Outcomes == SelectSeq(emitted, IsResult)
\* how many outcomes were emitted for an item
OutcomeCount(item) == Cardinality({i \in Indices(emitted) :
                                     IsResult(emitted[i]) /\ emitted[i].item = item})
\* done is followed by no result in the event sequence s
DoneIsLast(s) == \A i \in Indices(s) : \A j \in Indices(s) :
                    (i < j /\ IsDone(s[i])) => ~IsResult(s[j])

\* ------------------------------------------------------------------ claims

\* C1: once the worker has emitted done, every item put on the queue for the
\* batch has been taken off it and has exactly one outcome emitted.
C1_DoneMeansAllProcessed ==
    doneEmitted =>
        /\ tasks_queue = <<>>
        /\ \A k \in 1..nput : OutcomeCount(converted[k]) = 1

\* C2: every tasks.empty() check of the worker happens after the last put of
\* queue_images_for_upload.
C2_PopulatedBeforeObserved ==
    [][(wpc = "check" /\ wpc' # "check") => (cpc \notin {"queue", "put"})]_vars

\* C3: in silent mode, a batch with at least one converted file eventually
\* leaves wait_on_uploader_thread (on to examine_bg_results and the return).
C3_SilentWaitEnds ==
    (silent /\ cpc = "start") ~> (cpc \in {"examine", "returned"})

\* C4: in silent mode, when examine_bg_results has computed the summary,
\* bg_results holds one entry per item of the batch, the returned count is the
\* number of items whose pipeline returned non-zero, and 0 is returned only
\* when every item succeeded.
C4_SummaryCountsEveryItem ==
    (silent /\ cpc = "returned" /\ converted # <<>>) =>
        /\ Len(bg_results) = Len(converted)
        /\ ret = CountFailures(Outcomes)
        /\ (ret = 0 => \A i \in Indices(Outcomes) : Outcomes[i].r = 0)

\* C5: the outcomes are emitted in the order in which the items were put on
\* the queue: the i-th outcome is the outcome of the i-th item queued.
C5_OutcomesInFifoOrder ==
    /\ Len(Outcomes) <= nput
    /\ \A i \in Indices(Outcomes) : Outcomes[i].item = converted[i]

\* C5 witness: two outcomes were emitted, the first while the second item was
\* already waiting behind it in the queue.
C5_Witness ==
    /\ Len(Outcomes) >= 2
    /\ Outcomes[1].behind # {}

\* C6: done is the last event: no result is emitted after done, and no result
\* reaches the caller's slots after done did.
C6_DoneIsLast ==
    /\ DoneIsLast(emitted)
    /\ DoneIsLast(delivered)

\* C6 witness: the caller received two results and then done.
C6_Witness ==
    /\ Len(delivered) >= 3
    /\ IsDone(delivered[Len(delivered)])
    /\ IsResult(delivered[1])

\* C7: an item that fails at the rename, conversion or upload stage gets a
\* failure outcome, and the worker does not finish (emit done) before every
\* item that was waiting behind it has its outcome too.
C7_FailureDoesNotAbort ==
    \A i \in Indices(emitted) :
        (IsResult(emitted[i]) /\ emitted[i].fail \in {"rename", "convert", "upload"}) =>
            /\ emitted[i].r # 0
            /\ doneEmitted => \A it \in emitted[i].behind : OutcomeCount(it) = 1

\* C7 witness: the first item failed at the upload stage with items waiting
\* behind it, and the worker has finished.
C7_Witness ==
    /\ doneEmitted
    /\ Len(Outcomes) >= 2
    /\ Outcomes[1].fail = "upload"
    /\ Outcomes[1].behind # {}


\* the last response is the one that starts the compress-and-retry cycle
LastIsSizeLimit ==
    response.kind = "http" /\ response.status = 500 /\ response.marker
\* the last response is an HTTP response with a status outside 2xx
LastIsNonSuccess ==
    response.kind = "http" /\ ~(response.status >= 200 /\ response.status < 300)

\* C8: compress_image runs exactly once per response that is HTTP 500 with the
\* size-limit marker, and for no other outcome of a send; after any other
\* non-success response upload_image has returned false and sends nothing more.
C8_RetryOnlyOnSizeLimit ==
    (response.kind # "none") =>
        /\ compressions = (IF LastIsSizeLimit THEN requests ELSE requests - 1)
        /\ (LastIsNonSuccess /\ ~LastIsSizeLimit) =>
               (up_pc = "done" /\ up_ret = "false")

\* C8 witness: one cycle ran after a 500 with the marker, and the retry was
\* answered by a 500 without the marker, which ended the call with false.
C8_Witness ==
    /\ requests >= 2
    /\ compressions >= 1
    /\ response.kind = "http" /\ response.status = 500 /\ ~response.marker
    /\ up_ret = "false"

\* C9: for every behaviour of the server, upload_image eventually returns
\* (true or false).
C9_UploadReturns == <>(up_ret \in {"true", "false"})

\* C10: once compress_image has returned with the file still over
\* FILE_SIZE_LIMIT, no further request is sent for the file.
C10_NoRetryWhenStillOver == [][over => requests' = requests]_vars


\* C11: one call of compress_image performs at most MAX_RESIZE_PASSES
\* re-encodes, and when its loop ends the file is within FILE_SIZE_LIMIT or
\* exactly MAX_RESIZE_PASSES passes were made.
C11_AtMostMaxPasses ==
    /\ passes <= MAX_RESIZE_PASSES
    /\ (up_pc = "compress" /\ ~compress_loop(size, passes)) =>
           (size <= FILE_SIZE_LIMIT \/ passes = MAX_RESIZE_PASSES)

\* C12: a send that raises a connection failure or a timeout makes
\* upload_image return false: no exception leaves it and no compress_image
\* call is made for it.
C12_TransportFailureIsFalse ==
    (response.kind \in {"connection_error", "timeout"}) =>
        /\ up_pc = "done"
        /\ up_ret = "false"
        /\ compressions = requests - 1

\* C12 witness: the first send raised a connection failure and the call is over.
C12_Witness ==
    /\ response.kind = "connection_error"
    /\ requests = 1
    /\ up_pc = "done"

\* C13: when upload_image has returned after an HTTP response, it returned
\* true exactly if the status of that response is a 2xx status.
C13_TrueIffSuccessStatus ==
    (response.kind = "http" /\ up_ret \in {"true", "false"}) =>
        (up_ret = "true" <=> (response.status >= 200 /\ response.status < 300))


Stages == <<"rename", "convert", "upload">>
WasAttempted(st) == \E i \in Indices(attempted) : attempted[i] = st

\* C14: process_image calls its stages in order and stops at the first one
\* that fails: convert_image is called only after rename_path returned a
\* path, upload_image only after convert_image returned a path, and it
\* returns 0 exactly if all three succeeded.
C14_ShortCircuit ==
    /\ \E k \in 0..3 : attempted = SubSeq(Stages, 1, k)
    /\ WasAttempted("convert") => p_renamed
    /\ WasAttempted("upload") => (p_renamed /\ p_converted)
    /\ (p_pc = "done") =>
           (p_ret = 0 <=> (p_renamed /\ p_converted /\ up_ret = "true"))

\* C14 witness: the rename succeeded, the conversion failed, and process_image
\* returned 1 without calling upload_image.
C14_Witness ==
    /\ p_pc = "done"
    /\ p_renamed /\ ~p_converted
    /\ attempted = <<"rename", "convert">>
    /\ p_ret = 1


\* the batch has no file left after the renaming or after the conversion step
NoSurvivors ==
    /\ path_kind = "dir"
    /\ Len(converted_image_paths(files)) = 0
    /\ cpc # "run"

\* C15: when no file survives the renaming step, or none the conversion step,
\* process_images returns 1, has reported the condition once, and the worker
\* thread is never started and nothing is ever put on the queue.
C15_NoSurvivorsNoWorker ==
    NoSurvivors =>
        /\ ret = 1
        /\ batch_errors = 1
        /\ wpc = "idle"
        /\ tasks_queue = <<>> /\ nput = 0

\* C15 witness: files were renamed but none could be converted, and
\* process_images has returned.
C15_Witness ==
    /\ NoSurvivors
    /\ Len(renamed_image_paths(files)) > 0
    /\ ret = 1

\* closeEvent has been called
Closing == cpc \in {"close_join", "close_quit", "close_wait", "closed"}

\* C17: once shutdown is requested the worker starts no new item: a check of
\* the queue made after closeEvent never leads to another get.
C17_NoNewItemAfterClose ==
    [][(Closing /\ wpc = "check") => wpc' # "get"]_vars

\* C20: when get_page_images yields no directory, run() returns 1 without
\* raising, the worker is not started and nothing is queued.
C20_PdfFailureIsNoImages ==
    (path_kind = "pdf_failed" /\ cpc # "run") =>
        /\ cpc # "raised"
        /\ ret = 1
        /\ wpc = "idle"
        /\ tasks_queue = <<>> /\ nput = 0


\* foo_page12_page3.tif
ExampleName == [stem |-> <<"x", "P", "1", "2", "P", "3">>, ext |-> ".tif"]

\* C19: the marker copied into the new name is a complete marker of the
\* filename: "_page" with all the digits that follow it, not followed by
\* another "_page"; for foo_page12_page3.tif it is _page3.
C19_CopiesCompleteMarker ==
    (n_pc = "named") =>
        LET st == n_filename.stem
            at == page_search(st)[1]
            len == page_search(st)[2]
        IN /\ (at > 0) =>
                  /\ len = DigitRun(st, at + 1)
                  /\ ~PageAt(st, at + len + 1)
           /\ (n_filename = ExampleName) =>
                  n_name.stem = <<Hawb, "P", "3">>


\* the sources whose rename_path returned a path
Renamed == {i \in DOMAIN r_renamed : r_renamed[i].path # NoName}

\* C16: when process_images renames the files of one directory, no two
\* distinct source files are given the same new path, and the content of
\* every source file is still somewhere in the directory: no source file is
\* overwritten by the rename of a sibling.
C16_CollisionSafe ==
    /\ \A i, j \in Renamed : i # j => r_renamed[i].path # r_renamed[j].path
    /\ \A i \in DOMAIN r_files : \E p \in DirPaths : r_fs[p] = File(i)

\* C18: rename_path calls os.renames at most twice and clears the destination
\* at most once, the second move only after the clearing; when the move
\* cannot be completed it returns False, it does not raise, and the source
\* file lies at its path as it did when rename_path was entered.
C18_AtMostTwoMovesSourceUntouched ==
    /\ r_pc # "raised"
    /\ r_attempts <= 2 /\ r_clears <= 1
    /\ (r_attempts = 1 /\ r_pc = "try") => r_clears = 1
    /\ \A i \in DOMAIN r_renamed :
          /\ r_renamed[i].attempts <= 2
          /\ r_renamed[i].clears <= 1
          /\ (r_renamed[i].attempts = 2) => r_renamed[i].clears = 1
          /\ (r_renamed[i].path = NoName) => r_renamed[i].intact

\* a rename_path that failed on the first move, cleared a directory at the
\* destination, failed on the second move and returned False
C18_Witness ==
    \E i \in DOMAIN r_renamed :
        /\ r_renamed[i].path = NoName
        /\ r_renamed[i].attempts = 2
        /\ r_renamed[i].clears = 1


\* C21: when uploader.run() raises inside the worker's loop, the worker
\* still emits done (having marked the item done), and the caller does not
\* stay blocked in the join of wait_on_uploader_thread.
C21_RaiseStillFinishes ==
    raised ~> (doneEmitted /\ cpc \notin {"join", "close_join"})

\* the batch of the running request is drained: each of its items has its
\* outcome emitted and its done signal was delivered
BatchDrained ==
    /\ \A k \in Indices(converted) : OutcomeCount(converted[k]) = 1
    /\ \E i \in Indices(delivered) : IsDone(delivered[i])

\* C22: in attended mode every batch that is submitted, the first and every
\* later one, is eventually drained (unless the window is closed first).
C22_EveryBatchDrained ==
    \A n \in 1..MaxRequests :
        (~silent /\ request = n /\ cpc = "start") ~>
            (Closing \/ (request = n /\ BatchDrained))

\* C23: in attended mode, whenever the controls are disabled they are
\* eventually enabled again (unless the window is closed first).
C23_ControlsReenabled ==
    (~silent /\ ~controls) ~> (controls \/ Closing)

====
